---- MODULE Spec2Model ----
(***************************************************************************)
(* Two-level TLB (tlb.c): tlb_init, tlb_invalidate, find_lru_victim_l1,    *)
(* find_lru_victim_l2 and tlb_translate, as a state machine whose steps    *)
(* are whole calls of the three public functions.                          *)
(*                                                                         *)
(* The page-table walker (page_table_translate), the write-back store      *)
(* (write_back_tlb_entry) and the clock (increment_time) are external.     *)
(* The walker's answer is a nondeterministic choice, the write-back calls  *)
(* are recorded in the call's event list, and the clock is the variable    *)
(* current_time.                                                           *)
(*                                                                         *)
(* The uint64_t counters are naturals: no run of the lengths explored here *)
(* comes near 2^64.                                                        *)
(***************************************************************************)
EXTENDS Integers, Sequences, FiniteSets, TLC

(* Configuration constants of constants.h, which tlb.c only uses. Their    *)
(* values here are small ones with TLB_L1_SIZE <= TLB_L2_SIZE.             *)
TLB_L1_SIZE == 2
TLB_L2_SIZE == 3
PAGE_SIZE_BITS == 12
TLB_L1_LATENCY_NS == 1
TLB_L2_LATENCY_NS == 10

(* Bounds of the model: the pages translate and invalidate are called     *)
(* with and the number of calls of a run, for Spec and for the two         *)
(* narrower specifications below; the largest last_access of SpecVictim.   *)
NumPages == 3
MaxCalls == 4
MaxWriteCalls == 7
FillPages == 4
MaxFillCalls == 5
MaxStamp == 2

OP_READ == "OP_READ"
OP_WRITE == "OP_WRITE"
Ops == {OP_READ, OP_WRITE}

NoSlot == 0 - 1
NoAddr == 0 - 1

PageSize == 2 ^ PAGE_SIZE_BITS
ShiftRightPage(x) == x \div PageSize

VPNs == 0 .. (NumPages - 1)

(* The addresses translate is called with: page v is accessed at offset v. *)
VirtualAddresses == {v * PageSize + v : v \in VPNs}

(* The addresses translate is called with in SpecFill. *)
FillAddresses == {v * PageSize + v : v \in 0 .. (FillPages - 1)}

(* The addresses the page-table walker may answer with: two frames, and    *)
(* offsets that are not those of the virtual addresses.                    *)
Frames == {1, 2}
PhysicalAddresses == {f * PageSize + (PageSize - f) : f \in Frames}

(* The walker of the narrower specifications: page v is in frame v + 1.    *)
FrameAddress(virtual_address) ==
  (ShiftRightPage(virtual_address) + 1) * PageSize + (virtual_address % PageSize)

L1Slots == 0 .. (TLB_L1_SIZE - 1)
L2Slots == 0 .. (TLB_L2_SIZE - 1)

(* x | y and x & y on naturals. *)
RECURSIVE BitOr(_, _)
BitOr(x, y) ==
  IF x = 0 THEN y
  ELSE IF y = 0 THEN x
  ELSE (IF x % 2 = 1 \/ y % 2 = 1 THEN 1 ELSE 0) + 2 * BitOr(x \div 2, y \div 2)

RECURSIVE BitAnd(_, _)
BitAnd(x, y) ==
  IF x = 0 \/ y = 0 THEN 0
  ELSE (IF x % 2 = 1 /\ y % 2 = 1 THEN 1 ELSE 0) + 2 * BitAnd(x \div 2, y \div 2)

ShiftRight(x, n) == x \div (2 ^ n)
ShiftLeft(x, n) == x * (2 ^ n)

(* tlb_entry_t, and the all-zero entry memset and static storage produce. *)
tlb_entry_t(v, d, t, vp, pp) ==
  [valid |-> v, dirty |-> d, last_access |-> t,
   virtual_page_number |-> vp, physical_page_number |-> pp]

ZeroEntry == tlb_entry_t(FALSE, FALSE, 0, 0, 0)

VARIABLES
  tlb_l1, tlb_l2,
  tlb_l1_hits, tlb_l1_misses, tlb_l1_invalidations,
  tlb_l2_hits, tlb_l2_misses, tlb_l2_invalidations,
  access_counter,
  current_time,
  call,      \* the most recent call: arguments, path taken, result, external calls
  pre,       \* the state in which the most recent call was made
  written,   \* pages translated with OP_WRITE since they were last filled in
  ncalls     \* number of calls made so far

vars == <<tlb_l1, tlb_l2, tlb_l1_hits, tlb_l1_misses, tlb_l1_invalidations,
          tlb_l2_hits, tlb_l2_misses, tlb_l2_invalidations, access_counter,
          current_time, call, pre, written, ncalls>>

Event(name, arg) == [ev |-> name, arg |-> arg]

Call(op, va, vpn, rw, path, result, walk, events, l1_hit, l2_hit, l1_pos, l2_pos) ==
  [op |-> op, va |-> va, vpn |-> vpn, rw |-> rw, path |-> path,
   result |-> result, walk |-> walk, events |-> events,
   l1_hit |-> l1_hit, l2_hit |-> l2_hit, l1_pos |-> l1_pos, l2_pos |-> l2_pos]

NoCall == Call("none", NoAddr, NoSlot, OP_READ, "none", NoAddr, NoAddr, <<>>,
               NoSlot, NoSlot, NoSlot, NoSlot)

Snapshot ==
  [tlb_l1 |-> tlb_l1, tlb_l2 |-> tlb_l2,
   tlb_l1_hits |-> tlb_l1_hits, tlb_l1_misses |-> tlb_l1_misses,
   tlb_l1_invalidations |-> tlb_l1_invalidations,
   tlb_l2_hits |-> tlb_l2_hits, tlb_l2_misses |-> tlb_l2_misses,
   tlb_l2_invalidations |-> tlb_l2_invalidations,
   access_counter |-> access_counter, current_time |-> current_time,
   call |-> call, written |-> written]

(* The scan "for i: if (tlb[i].valid && tlb[i].virtual_page_number == vpn)": *)
(* the first matching index from i on, NoSlot when the loop ends.          *)
RECURSIVE FirstMatch(_, _, _, _)
FirstMatch(tlb, size, vpn, i) ==
  IF i >= size THEN NoSlot
  ELSE IF tlb[i].valid /\ tlb[i].virtual_page_number = vpn THEN i
  ELSE FirstMatch(tlb, size, vpn, i + 1)

(* The first loop of find_lru_victim_*: the first invalid slot. *)
RECURSIVE FirstInvalid(_, _, _)
FirstInvalid(tlb, size, i) ==
  IF i >= size THEN NoSlot
  ELSE IF ~tlb[i].valid THEN i
  ELSE FirstInvalid(tlb, size, i + 1)

(* The second loop of find_lru_victim_*: from i on, with the running       *)
(* lru_index and oldest_time.                                              *)
RECURSIVE OldestFrom_LastAmongTies(_, _, _, _, _)
OldestFrom_LastAmongTies(tlb, size, i, lru_index, oldest_time) ==
  IF i >= size THEN lru_index
  ELSE IF tlb[i].last_access <= oldest_time
       THEN OldestFrom_LastAmongTies(tlb, size, i + 1, i, tlb[i].last_access)
       ELSE OldestFrom_LastAmongTies(tlb, size, i + 1, lru_index, oldest_time)

RECURSIVE OldestFrom(_, _, _, _, _)
OldestFrom(tlb, size, i, lru_index, oldest_time) ==
  IF i >= size THEN lru_index
  ELSE IF tlb[i].last_access < oldest_time
       THEN OldestFrom(tlb, size, i + 1, i, tlb[i].last_access)
       ELSE OldestFrom(tlb, size, i + 1, lru_index, oldest_time)

find_lru_victim_l1(l1) ==
  LET free == FirstInvalid(l1, TLB_L1_SIZE, 0)
  IN  IF free # NoSlot THEN free
      ELSE OldestFrom(l1, TLB_L1_SIZE, 1, 0, l1[0].last_access)

find_lru_victim_l2(l2) ==
  LET free == FirstInvalid(l2, TLB_L2_SIZE, 0)
  IN  IF free # NoSlot THEN free
      ELSE OldestFrom(l2, TLB_L2_SIZE, 1, 0, l2[0].last_access)

(* The re-scan of tlb_translate when the L2 victim is the slot that hit.   *)
RECURSIVE RescanFrom(_, _, _, _, _)
RescanFrom(l2, i, j, oldest_time, l2_pos) ==
  IF j >= TLB_L2_SIZE THEN l2_pos
  ELSE IF l2[j].last_access < oldest_time
       THEN RescanFrom(l2, i, j + 1, l2[j].last_access,
                       IF j # i THEN j ELSE l2_pos)
       ELSE RescanFrom(l2, i, j + 1, oldest_time, l2_pos)

Init ==
  /\ tlb_l1 = [i \in L1Slots |-> ZeroEntry]
  /\ tlb_l2 = [i \in L2Slots |-> ZeroEntry]
  /\ tlb_l1_hits = 0
  /\ tlb_l1_misses = 0
  /\ tlb_l1_invalidations = 0
  /\ tlb_l2_hits = 0
  /\ tlb_l2_misses = 0
  /\ tlb_l2_invalidations = 0
  /\ access_counter = 0
  /\ current_time = 0
  /\ call = NoCall
  /\ pre = [tlb_l1 |-> [i \in L1Slots |-> ZeroEntry],
            tlb_l2 |-> [i \in L2Slots |-> ZeroEntry],
            tlb_l1_hits |-> 0, tlb_l1_misses |-> 0, tlb_l1_invalidations |-> 0,
            tlb_l2_hits |-> 0, tlb_l2_misses |-> 0, tlb_l2_invalidations |-> 0,
            access_counter |-> 0, current_time |-> 0, call |-> NoCall,
            written |-> {}]
  /\ written = {}
  /\ ncalls = 0

Outcome(l1, l2, ac, path, result, events, l1_hit, l2_hit, l1_pos, l2_pos) ==
  [l1 |-> l1, l2 |-> l2, ac |-> ac, path |-> path, result |-> result,
   events |-> events, l1_hit |-> l1_hit, l2_hit |-> l2_hit,
   l1_pos |-> l1_pos, l2_pos |-> l2_pos]

(* L1 hit with "dirty = (op == OP_WRITE)" for "if (op == OP_WRITE) dirty = *)
(* true".                                                                  *)
L1HitOutcome_AssignDirty(l1, l2, ac, i, page_offset, op) ==
  LET ac1 == ac + 1
      l1a == [l1 EXCEPT ![i].last_access = ac1, ![i].dirty = (op = OP_WRITE)]
      result == BitOr(ShiftLeft(l1a[i].physical_page_number, PAGE_SIZE_BITS),
                      page_offset)
  IN  Outcome(l1a, l2, ac1, "l1_hit", result, <<>>, i, NoSlot, NoSlot, NoSlot)

(* L1 hit that returns the page's base address, without "| page_offset".   *)
L1HitOutcome_NoOffset(l1, l2, ac, i, page_offset, op) ==
  LET ac1 == ac + 1
      l1a == [l1 EXCEPT ![i].last_access = ac1,
                        ![i].dirty = IF op = OP_WRITE THEN TRUE ELSE @]
      result == ShiftLeft(l1a[i].physical_page_number, PAGE_SIZE_BITS)
  IN  Outcome(l1a, l2, ac1, "l1_hit", result, <<>>, i, NoSlot, NoSlot, NoSlot)

(* L1 hit that also refreshes the L2 copy of the page: its last_access and *)
(* its dirty flag.                                                         *)
L1HitOutcome_RefreshL2(l1, l2, ac, i, page_offset, op) ==
  LET ac1 == ac + 1
      l1a == [l1 EXCEPT ![i].last_access = ac1,
                        ![i].dirty = IF op = OP_WRITE THEN TRUE ELSE @]
      j == FirstMatch(l2, TLB_L2_SIZE, l1[i].virtual_page_number, 0)
      l2a == IF j # NoSlot
             THEN [l2 EXCEPT ![j].last_access = ac1,
                             ![j].dirty = IF op = OP_WRITE THEN TRUE ELSE @]
             ELSE l2
      result == BitOr(ShiftLeft(l1a[i].physical_page_number, PAGE_SIZE_BITS),
                      page_offset)
  IN  Outcome(l1a, l2a, ac1, "l1_hit", result, <<>>, i, NoSlot, NoSlot, NoSlot)

(* tlb_translate, L1 hit at slot i. *)
L1HitOutcome(l1, l2, ac, i, page_offset, op) ==
  LET ac1 == ac + 1
      l1a == [l1 EXCEPT ![i].last_access = ac1,
                        ![i].dirty = IF op = OP_WRITE THEN TRUE ELSE @]
      result == BitOr(ShiftLeft(l1a[i].physical_page_number, PAGE_SIZE_BITS),
                      page_offset)
  IN  Outcome(l1a, l2, ac1, "l1_hit", result, <<>>, i, NoSlot, NoSlot, NoSlot)

(* L2 hit that picks the L2 slot of the demotion on the timestamps as     *)
(* they were before the hit, and without the guard against the hit slot.   *)
L2HitOutcome_StaleVictim(l1, l2, ac, i, page_offset, op) ==
  LET ac1 == ac + 1
      l2a == [l2 EXCEPT ![i].last_access = ac1,
                        ![i].dirty = IF op = OP_WRITE THEN TRUE ELSE @]
      l1_pos == find_lru_victim_l1(l1)
      demote == l1[l1_pos].valid /\ l1[l1_pos].dirty
      l2_pos == find_lru_victim_l2(l2)
      l2b == IF demote THEN [l2a EXCEPT ![l2_pos] = l1[l1_pos]] ELSE l2a
      l1a == [l1 EXCEPT ![l1_pos] = l2b[i]]
      l2c == [l2b EXCEPT ![i].last_access = ac1]
      result == BitOr(ShiftLeft(l2c[i].physical_page_number, PAGE_SIZE_BITS),
                      page_offset)
      events == (IF demote THEN <<Event("l2_write", l2_pos)>> ELSE <<>>)
                \o <<Event("l1_write", l1_pos)>>
  IN  Outcome(l1a, l2c, ac1, "l2_hit", result, events, NoSlot, i, l1_pos,
              IF demote THEN l2_pos ELSE NoSlot)

(* L2 hit that promotes the entry as it was found, before its last_access *)
(* and dirty flag are updated.                                             *)
L2HitOutcome_StaleCopy(l1, l2, ac, i, page_offset, op) ==
  LET ac1 == ac + 1
      l2a == [l2 EXCEPT ![i].last_access = ac1,
                        ![i].dirty = IF op = OP_WRITE THEN TRUE ELSE @]
      l1_pos == find_lru_victim_l1(l1)
      demote == l1[l1_pos].valid /\ l1[l1_pos].dirty
      victim == find_lru_victim_l2(l2a)
      l2_pos == IF victim = i
                THEN RescanFrom(l2a, i, 1, l2a[0].last_access, victim)
                ELSE victim
      l2b == IF demote THEN [l2a EXCEPT ![l2_pos] = l1[l1_pos]] ELSE l2a
      l1a == [l1 EXCEPT ![l1_pos] = l2[i]]
      l2c == [l2b EXCEPT ![i].last_access = ac1]
      result == BitOr(ShiftLeft(l2c[i].physical_page_number, PAGE_SIZE_BITS),
                      page_offset)
      events == (IF demote THEN <<Event("l2_write", l2_pos)>> ELSE <<>>)
                \o <<Event("l1_write", l1_pos)>>
  IN  Outcome(l1a, l2c, ac1, "l2_hit", result, events, NoSlot, i, l1_pos,
              IF demote THEN l2_pos ELSE NoSlot)

(* tlb_translate, L1 miss and L2 hit at slot i: promotion into L1, with    *)
(* the valid and dirty L1 victim copied into L2 first.                     *)
L2HitOutcome(l1, l2, ac, i, page_offset, op) ==
  LET ac1 == ac + 1
      l2a == [l2 EXCEPT ![i].last_access = ac1,
                        ![i].dirty = IF op = OP_WRITE THEN TRUE ELSE @]
      l1_pos == find_lru_victim_l1(l1)
      demote == l1[l1_pos].valid /\ l1[l1_pos].dirty
      victim == find_lru_victim_l2(l2a)
      l2_pos == IF victim = i
                THEN RescanFrom(l2a, i, 1, l2a[0].last_access, victim)
                ELSE victim
      l2b == IF demote THEN [l2a EXCEPT ![l2_pos] = l1[l1_pos]] ELSE l2a
      l1a == [l1 EXCEPT ![l1_pos] = l2b[i]]
      l2c == [l2b EXCEPT ![i].last_access = ac1]
      result == BitOr(ShiftLeft(l2c[i].physical_page_number, PAGE_SIZE_BITS),
                      page_offset)
      events == (IF demote THEN <<Event("l2_write", l2_pos)>> ELSE <<>>)
                \o <<Event("l1_write", l1_pos)>>
  IN  Outcome(l1a, l2c, ac1, "l2_hit", result, events, NoSlot, i, l1_pos,
              IF demote THEN l2_pos ELSE NoSlot)

(* Miss-fill that leaves the L1 copy clean whatever the operation.         *)
MissOutcome_L1Clean(l1, l2, ac, virtual_address, vpn, op, physical_address) ==
  LET ppn == ShiftRight(physical_address, PAGE_SIZE_BITS)
      l2_pos == find_lru_victim_l2(l2)
      wb == l2[l2_pos].valid /\ l2[l2_pos].dirty
      ac1 == ac + 1
      l2a == [l2 EXCEPT ![l2_pos] =
                tlb_entry_t(TRUE, op = OP_WRITE, ac1, vpn, ppn)]
      l1_pos == find_lru_victim_l1(l1)
      ac2 == ac1 + 1
      l1a == [l1 EXCEPT ![l1_pos] = tlb_entry_t(TRUE, FALSE, ac2, vpn, ppn)]
      events == <<Event("page_table_translate", virtual_address)>>
                \o (IF wb
                    THEN <<Event("write_back_tlb_entry",
                                 ShiftLeft(l2[l2_pos].physical_page_number,
                                           PAGE_SIZE_BITS))>>
                    ELSE <<>>)
                \o <<Event("l2_write", l2_pos), Event("l1_write", l1_pos)>>
  IN  Outcome(l1a, l2a, ac2, "miss", physical_address, events,
              NoSlot, NoSlot, l1_pos, l2_pos)

(* Miss-fill that writes the L2 victim back whenever it is valid, dirty or *)
(* not.                                                                    *)
MissOutcome_WriteBackValid(l1, l2, ac, virtual_address, vpn, op, physical_address) ==
  LET ppn == ShiftRight(physical_address, PAGE_SIZE_BITS)
      l2_pos == find_lru_victim_l2(l2)
      wb == l2[l2_pos].valid
      ac1 == ac + 1
      l2a == [l2 EXCEPT ![l2_pos] =
                tlb_entry_t(TRUE, op = OP_WRITE, ac1, vpn, ppn)]
      l1_pos == find_lru_victim_l1(l1)
      ac2 == ac1 + 1
      l1a == [l1 EXCEPT ![l1_pos] =
                tlb_entry_t(TRUE, op = OP_WRITE, ac2, vpn, ppn)]
      events == <<Event("page_table_translate", virtual_address)>>
                \o (IF wb
                    THEN <<Event("write_back_tlb_entry",
                                 ShiftLeft(l2[l2_pos].physical_page_number,
                                           PAGE_SIZE_BITS))>>
                    ELSE <<>>)
                \o <<Event("l2_write", l2_pos), Event("l1_write", l1_pos)>>
  IN  Outcome(l1a, l2a, ac2, "miss", physical_address, events,
              NoSlot, NoSlot, l1_pos, l2_pos)

(* tlb_translate, miss in both levels: the page-table walker answers       *)
(* physical_address, and the mapping is inserted in L2 and then in L1.     *)
MissOutcome(l1, l2, ac, virtual_address, vpn, op, physical_address) ==
  LET ppn == ShiftRight(physical_address, PAGE_SIZE_BITS)
      l2_pos == find_lru_victim_l2(l2)
      wb == l2[l2_pos].valid /\ l2[l2_pos].dirty
      ac1 == ac + 1
      l2a == [l2 EXCEPT ![l2_pos] =
                tlb_entry_t(TRUE, op = OP_WRITE, ac1, vpn, ppn)]
      l1_pos == find_lru_victim_l1(l1)
      ac2 == ac1 + 1
      l1a == [l1 EXCEPT ![l1_pos] =
                tlb_entry_t(TRUE, op = OP_WRITE, ac2, vpn, ppn)]
      events == <<Event("page_table_translate", virtual_address)>>
                \o (IF wb
                    THEN <<Event("write_back_tlb_entry",
                                 ShiftLeft(l2[l2_pos].physical_page_number,
                                           PAGE_SIZE_BITS))>>
                    ELSE <<>>)
                \o <<Event("l2_write", l2_pos), Event("l1_write", l1_pos)>>
  IN  Outcome(l1a, l2a, ac2, "miss", physical_address, events,
              NoSlot, NoSlot, l1_pos, l2_pos)

(* tlb_translate(virtual_address, op); physical_address is what the        *)
(* page-table walker answers if it is asked.                               *)
TranslateOutcome(l1, l2, ac, virtual_address, op, physical_address) ==
  LET vpn == ShiftRight(virtual_address, PAGE_SIZE_BITS)
      page_offset == BitAnd(virtual_address, ShiftLeft(1, PAGE_SIZE_BITS) - 1)
      i1 == FirstMatch(l1, TLB_L1_SIZE, vpn, 0)
      i2 == FirstMatch(l2, TLB_L2_SIZE, vpn, 0)
  IN  IF i1 # NoSlot THEN L1HitOutcome(l1, l2, ac, i1, page_offset, op)
      ELSE IF i2 # NoSlot THEN L2HitOutcome(l1, l2, ac, i2, page_offset, op)
      ELSE MissOutcome(l1, l2, ac, virtual_address, vpn, op, physical_address)

(* Clock charge that leaves out the L2 latency of a translate that misses  *)
(* both levels.                                                            *)
TranslateLatency_MissUncharged(path) ==
  IF path = "l2_hit" THEN TLB_L1_LATENCY_NS + TLB_L2_LATENCY_NS
  ELSE TLB_L1_LATENCY_NS

(* The clock charge of a translate by the path it took. *)
TranslateLatency(path) ==
  IF path = "l1_hit" THEN TLB_L1_LATENCY_NS
  ELSE TLB_L1_LATENCY_NS + TLB_L2_LATENCY_NS

(* tlb_translate without the "tlb_l2_misses++" of the full-miss path.      *)
tlb_translate_L2MissUncounted(virtual_address, op, physical_address) ==
  \E o \in {TranslateOutcome(tlb_l1, tlb_l2, access_counter,
                            virtual_address, op, physical_address)} :
      /\ tlb_l1' = o.l1
      /\ tlb_l2' = o.l2
      /\ access_counter' = o.ac
      /\ tlb_l1_hits' = tlb_l1_hits + (IF o.path = "l1_hit" THEN 1 ELSE 0)
      /\ tlb_l1_misses' = tlb_l1_misses + (IF o.path = "l1_hit" THEN 0 ELSE 1)
      /\ tlb_l2_hits' = tlb_l2_hits + (IF o.path = "l2_hit" THEN 1 ELSE 0)
      /\ tlb_l2_misses' = tlb_l2_misses
      /\ current_time' = current_time + TranslateLatency(o.path)
      /\ call' = Call("translate", virtual_address,
                      ShiftRight(virtual_address, PAGE_SIZE_BITS), op, o.path,
                      o.result,
                      IF o.path = "miss" THEN physical_address ELSE NoAddr,
                      o.events, o.l1_hit, o.l2_hit, o.l1_pos, o.l2_pos)
      /\ pre' = Snapshot
      /\ written' =
           LET vpn == ShiftRight(virtual_address, PAGE_SIZE_BITS)
           IN  IF op = OP_WRITE THEN written \cup {vpn}
               ELSE IF o.path = "miss" THEN written \ {vpn}
               ELSE written
      /\ ncalls' = ncalls + 1
      /\ UNCHANGED <<tlb_l1_invalidations, tlb_l2_invalidations>>

tlb_translate(virtual_address, op, physical_address) ==
  \E o \in {TranslateOutcome(tlb_l1, tlb_l2, access_counter,
                            virtual_address, op, physical_address)} :
      /\ tlb_l1' = o.l1
      /\ tlb_l2' = o.l2
      /\ access_counter' = o.ac
      /\ tlb_l1_hits' = tlb_l1_hits + (IF o.path = "l1_hit" THEN 1 ELSE 0)
      /\ tlb_l1_misses' = tlb_l1_misses + (IF o.path = "l1_hit" THEN 0 ELSE 1)
      /\ tlb_l2_hits' = tlb_l2_hits + (IF o.path = "l2_hit" THEN 1 ELSE 0)
      /\ tlb_l2_misses' = tlb_l2_misses + (IF o.path = "miss" THEN 1 ELSE 0)
      /\ current_time' = current_time + TranslateLatency(o.path)
      /\ call' = Call("translate", virtual_address,
                      ShiftRight(virtual_address, PAGE_SIZE_BITS), op, o.path,
                      o.result,
                      IF o.path = "miss" THEN physical_address ELSE NoAddr,
                      o.events, o.l1_hit, o.l2_hit, o.l1_pos, o.l2_pos)
      /\ pre' = Snapshot
      /\ written' =
           LET vpn == ShiftRight(virtual_address, PAGE_SIZE_BITS)
           IN  IF op = OP_WRITE THEN written \cup {vpn}
               ELSE IF o.path = "miss" THEN written \ {vpn}
               ELSE written
      /\ ncalls' = ncalls + 1
      /\ UNCHANGED <<tlb_l1_invalidations, tlb_l2_invalidations>>

(* A translate that hits asks no walker; one that misses gets any of the   *)
(* walker's possible answers.                                              *)
Translate ==
  /\ ncalls < MaxCalls
  /\ \E virtual_address \in VirtualAddresses, op \in Ops :
    LET vpn == ShiftRight(virtual_address, PAGE_SIZE_BITS)
    IN  IF FirstMatch(tlb_l1, TLB_L1_SIZE, vpn, 0) # NoSlot
           \/ FirstMatch(tlb_l2, TLB_L2_SIZE, vpn, 0) # NoSlot
        THEN tlb_translate(virtual_address, op, NoAddr)
        ELSE \E physical_address \in PhysicalAddresses :
               tlb_translate(virtual_address, op, physical_address)

(* tlb_invalidate whose L1 branch writes a dirty entry back as well.       *)
InvalidateOutcome_L1WriteBack(l1, l2, vpn) ==
  LET i1 == FirstMatch(l1, TLB_L1_SIZE, vpn, 0)
      i2 == FirstMatch(l2, TLB_L2_SIZE, vpn, 0)
      l1a == IF i1 # NoSlot THEN [l1 EXCEPT ![i1].valid = FALSE] ELSE l1
      l2a == IF i2 # NoSlot THEN [l2 EXCEPT ![i2].valid = FALSE] ELSE l2
      events == (IF i1 # NoSlot /\ l1[i1].dirty
                 THEN <<Event("write_back_tlb_entry",
                              ShiftLeft(l1[i1].physical_page_number,
                                        PAGE_SIZE_BITS))>>
                 ELSE <<>>)
                \o (IF i1 # NoSlot THEN <<Event("l1_invalidate", i1)>> ELSE <<>>)
                \o (IF i2 # NoSlot /\ l2[i2].dirty
                    THEN <<Event("write_back_tlb_entry",
                                 ShiftLeft(l2[i2].physical_page_number,
                                           PAGE_SIZE_BITS))>>
                    ELSE <<>>)
                \o (IF i2 # NoSlot THEN <<Event("l2_invalidate", i2)>> ELSE <<>>)
  IN  Outcome(l1a, l2a, 0, "invalidate", NoAddr, events, i1, i2, NoSlot, NoSlot)

(* tlb_invalidate that clears the whole matched entry, not only its valid  *)
(* flag.                                                                   *)
InvalidateOutcome_ZeroEntry(l1, l2, vpn) ==
  LET i1 == FirstMatch(l1, TLB_L1_SIZE, vpn, 0)
      i2 == FirstMatch(l2, TLB_L2_SIZE, vpn, 0)
      l1a == IF i1 # NoSlot THEN [l1 EXCEPT ![i1] = ZeroEntry] ELSE l1
      l2a == IF i2 # NoSlot THEN [l2 EXCEPT ![i2] = ZeroEntry] ELSE l2
      events == (IF i1 # NoSlot THEN <<Event("l1_invalidate", i1)>> ELSE <<>>)
                \o (IF i2 # NoSlot /\ l2[i2].dirty
                    THEN <<Event("write_back_tlb_entry",
                                 ShiftLeft(l2[i2].physical_page_number,
                                           PAGE_SIZE_BITS))>>
                    ELSE <<>>)
                \o (IF i2 # NoSlot THEN <<Event("l2_invalidate", i2)>> ELSE <<>>)
  IN  Outcome(l1a, l2a, 0, "invalidate", NoAddr, events, i1, i2, NoSlot, NoSlot)

(* tlb_invalidate: the L1 loop and then the L2 loop, each stopping at its  *)
(* first match; only the L2 branch writes back.                            *)
InvalidateOutcome(l1, l2, vpn) ==
  LET i1 == FirstMatch(l1, TLB_L1_SIZE, vpn, 0)
      i2 == FirstMatch(l2, TLB_L2_SIZE, vpn, 0)
      l1a == IF i1 # NoSlot THEN [l1 EXCEPT ![i1].valid = FALSE] ELSE l1
      l2a == IF i2 # NoSlot THEN [l2 EXCEPT ![i2].valid = FALSE] ELSE l2
      events == (IF i1 # NoSlot THEN <<Event("l1_invalidate", i1)>> ELSE <<>>)
                \o (IF i2 # NoSlot /\ l2[i2].dirty
                    THEN <<Event("write_back_tlb_entry",
                                 ShiftLeft(l2[i2].physical_page_number,
                                           PAGE_SIZE_BITS))>>
                    ELSE <<>>)
                \o (IF i2 # NoSlot THEN <<Event("l2_invalidate", i2)>> ELSE <<>>)
  IN  Outcome(l1a, l2a, 0, "invalidate", NoAddr, events, i1, i2, NoSlot, NoSlot)

tlb_invalidate(virtual_page_number) ==
  \E o \in {InvalidateOutcome(tlb_l1, tlb_l2, virtual_page_number)} :
      /\ tlb_l1' = o.l1
      /\ tlb_l2' = o.l2
      /\ tlb_l1_invalidations' =
           tlb_l1_invalidations + (IF o.l1_hit # NoSlot THEN 1 ELSE 0)
      /\ tlb_l2_invalidations' =
           tlb_l2_invalidations + (IF o.l2_hit # NoSlot THEN 1 ELSE 0)
      /\ call' = Call("invalidate", NoAddr, virtual_page_number, OP_READ,
                      o.path, o.result, NoAddr, o.events, o.l1_hit, o.l2_hit,
                      NoSlot, NoSlot)
      /\ pre' = Snapshot
      /\ written' = written \ {virtual_page_number}
      /\ ncalls' = ncalls + 1
      /\ UNCHANGED <<tlb_l1_hits, tlb_l1_misses, tlb_l2_hits, tlb_l2_misses,
                     access_counter, current_time>>

Invalidate ==
  /\ ncalls < MaxCalls
  /\ \E virtual_page_number \in VPNs : tlb_invalidate(virtual_page_number)

(* tlb_init: both arrays and the six statistics are zeroed; access_counter *)
(* is not assigned.                                                        *)
tlb_init ==
  /\ tlb_l1' = [i \in L1Slots |-> ZeroEntry]
  /\ tlb_l2' = [i \in L2Slots |-> ZeroEntry]
  /\ tlb_l1_hits' = 0
  /\ tlb_l1_misses' = 0
  /\ tlb_l1_invalidations' = 0
  /\ tlb_l2_hits' = 0
  /\ tlb_l2_misses' = 0
  /\ tlb_l2_invalidations' = 0
  /\ call' = Call("init", NoAddr, NoSlot, OP_READ, "init", NoAddr, NoAddr, <<>>,
                  NoSlot, NoSlot, NoSlot, NoSlot)
  /\ pre' = Snapshot
  /\ written' = {}
  /\ ncalls' = ncalls + 1
  /\ UNCHANGED <<access_counter, current_time>>

Reinit ==
  /\ ncalls < MaxCalls
  /\ tlb_init

Next == Translate \/ Invalidate \/ Reinit

Spec == Init /\ [][Next]_vars

(* Runs of Spec's kind made of write translations and invalidations only,  *)
(* with the walker FrameAddress: fewer runs, so longer ones.               *)
TranslateWrite ==
  /\ ncalls < MaxWriteCalls
  /\ \E virtual_address \in VirtualAddresses :
       tlb_translate(virtual_address, OP_WRITE, FrameAddress(virtual_address))

InvalidateWrite ==
  /\ ncalls < MaxWriteCalls
  /\ \E virtual_page_number \in VPNs : tlb_invalidate(virtual_page_number)

NextWrites == TranslateWrite \/ InvalidateWrite

SpecWrites == Init /\ [][NextWrites]_vars

(* Runs made of translations only, reads and writes, over FillPages pages, *)
(* with the walker FrameAddress.                                           *)
TranslateFill ==
  /\ ncalls < MaxFillCalls
  /\ \E virtual_address \in FillAddresses, op \in Ops :
       tlb_translate(virtual_address, op, FrameAddress(virtual_address))

NextFill == TranslateFill

SpecFill == Init /\ [][NextFill]_vars

(* Victim selection as a function of a level's content: every content of   *)
(* L1 and of L2 whose slots are valid or not and carry a last_access up to *)
(* MaxStamp, and one step that runs both selections.                       *)
StampedLevels(slots) ==
  {[i \in slots |-> tlb_entry_t(f[i][1], FALSE, f[i][2], i, 0)] :
     f \in [slots -> BOOLEAN \X (0 .. MaxStamp)]}

InitVictim ==
  /\ tlb_l1 \in StampedLevels(L1Slots)
  /\ tlb_l2 \in StampedLevels(L2Slots)
  /\ tlb_l1_hits = 0
  /\ tlb_l1_misses = 0
  /\ tlb_l1_invalidations = 0
  /\ tlb_l2_hits = 0
  /\ tlb_l2_misses = 0
  /\ tlb_l2_invalidations = 0
  /\ access_counter = MaxStamp
  /\ current_time = 0
  /\ call = NoCall
  /\ pre = [tlb_l1 |-> tlb_l1, tlb_l2 |-> tlb_l2,
            tlb_l1_hits |-> 0, tlb_l1_misses |-> 0, tlb_l1_invalidations |-> 0,
            tlb_l2_hits |-> 0, tlb_l2_misses |-> 0, tlb_l2_invalidations |-> 0,
            access_counter |-> MaxStamp, current_time |-> 0, call |-> NoCall,
            written |-> {}]
  /\ written = {}
  /\ ncalls = 0

FindVictims ==
  /\ ncalls = 0
  /\ call' = Call("find_lru_victim", NoAddr, NoSlot, OP_READ, "victim",
                  NoAddr, NoAddr, <<>>, NoSlot, NoSlot,
                  find_lru_victim_l1(tlb_l1), find_lru_victim_l2(tlb_l2))
  /\ pre' = Snapshot
  /\ ncalls' = ncalls + 1
  /\ UNCHANGED <<tlb_l1, tlb_l2, tlb_l1_hits, tlb_l1_misses,
                 tlb_l1_invalidations, tlb_l2_hits, tlb_l2_misses,
                 tlb_l2_invalidations, access_counter, current_time, written>>

NextVictim == FindVictims

SpecVictim == InitVictim /\ [][NextVictim]_vars

(***************************************************************************)
(* The claims.                                                             *)
(***************************************************************************)

(* The valid slots of a level that hold page vpn. *)
Holders(tlb, slots, vpn) ==
  {i \in slots : tlb[i].valid /\ tlb[i].virtual_page_number = vpn}

AllPages == VPNs \cup (0 .. (FillPages - 1))

(* Event e occurs in the call's event list, and before event f. *)
Occurs(e) == \E k \in 1 .. Len(call.events) : call.events[k] = e

OccursBefore(e, f) ==
  \E k \in 1 .. Len(call.events), m \in 1 .. Len(call.events) :
    k < m /\ call.events[k] = e /\ call.events[m] = f

(* C1: in every reachable state, and for L1 and L2 separately, at most one *)
(* valid slot of the level holds a given virtual page number.              *)
C1_NoDuplicateMapping ==
  \A v \in AllPages :
    /\ Cardinality(Holders(tlb_l1, L1Slots, v)) <= 1
    /\ Cardinality(Holders(tlb_l2, L2Slots, v)) <= 1

(* C2: right after invalidate(vpn) no valid slot of L1 and no valid slot   *)
(* of L2 holds vpn.                                                        *)
C2_InvalidationComplete ==
  call.op = "invalidate" =>
    /\ Holders(tlb_l1, L1Slots, call.vpn) = {}
    /\ Holders(tlb_l2, L2Slots, call.vpn) = {}

(* C3: a translate of an address of page vpn made directly after           *)
(* invalidate(vpn) misses L1 and L2 (both miss counters go up by one),     *)
(* asks the page-table walker and returns the walker's answer.             *)
C3_FullMissAfterInvalidate ==
  (call.op = "translate" /\ pre.call.op = "invalidate"
     /\ pre.call.vpn = call.vpn) =>
    /\ call.path = "miss"
    /\ tlb_l1_misses = pre.tlb_l1_misses + 1
    /\ tlb_l2_misses = pre.tlb_l2_misses + 1
    /\ Occurs(Event("page_table_translate", call.va))
    /\ call.result = call.walk

(* C4: inclusion: every page held by a valid L1 slot is held by a valid    *)
(* L2 slot.                                                                *)
C4_Inclusion ==
  \A v \in AllPages :
    Holders(tlb_l1, L1Slots, v) # {} => Holders(tlb_l2, L2Slots, v) # {}

(* C5: when the L2 entry of a page that was translated with OP_WRITE while *)
(* cached is the victim of the miss-fill of another page, write_back is    *)
(* called with the page's physical address (ppn << page_bits) before the   *)
(* L2 slot is overwritten.                                                 *)
C5_WriteBackOnL2Eviction ==
  (call.op = "translate" /\ call.path = "miss") =>
    LET old == pre.tlb_l2[call.l2_pos]
    IN  (old.valid /\ old.virtual_page_number # call.vpn
           /\ old.virtual_page_number \in pre.written) =>
          OccursBefore(
            Event("write_back_tlb_entry", old.physical_page_number * PageSize),
            Event("l2_write", call.l2_pos))

(* C6: after a translate that misses L1 and hits L2, the page is held by a *)
(* valid L1 slot and still by the L2 slot that hit, and the two copies     *)
(* have the same physical page, dirty flag and last_access, which is the   *)
(* access counter.                                                         *)
C6_PromotionCopies ==
  (call.op = "translate" /\ call.path = "l2_hit") =>
    /\ tlb_l2[call.l2_hit].valid
    /\ tlb_l2[call.l2_hit].virtual_page_number = call.vpn
    /\ \E j \in L1Slots :
         /\ tlb_l1[j].valid
         /\ tlb_l1[j].virtual_page_number = call.vpn
         /\ tlb_l1[j].physical_page_number
              = tlb_l2[call.l2_hit].physical_page_number
         /\ tlb_l1[j].dirty = tlb_l2[call.l2_hit].dirty
         /\ tlb_l1[j].last_access = tlb_l2[call.l2_hit].last_access
         /\ tlb_l1[j].last_access = access_counter

(* An L2 hit whose valid and dirty L1 victim was copied into L2. *)
C6_Witness ==
  /\ call.op = "translate"
  /\ call.path = "l2_hit"
  /\ call.l2_pos # NoSlot
  /\ pre.tlb_l1[call.l1_pos].valid
  /\ pre.tlb_l1[call.l1_pos].dirty

(* C7: a translate that hits returns (ppn << page_bits) | (va & page_mask) *)
(* with the ppn the entry that hit held before the call; a translate that  *)
(* misses both levels returns the walker's answer.                         *)
C7_ReturnedAddress ==
  call.op = "translate" =>
    /\ call.path = "l1_hit" =>
         /\ pre.tlb_l1[call.l1_hit].valid
         /\ pre.tlb_l1[call.l1_hit].virtual_page_number = call.va \div PageSize
         /\ call.result = pre.tlb_l1[call.l1_hit].physical_page_number * PageSize
                          + (call.va % PageSize)
    /\ call.path = "l2_hit" =>
         /\ pre.tlb_l2[call.l2_hit].valid
         /\ pre.tlb_l2[call.l2_hit].virtual_page_number = call.va \div PageSize
         /\ call.result = pre.tlb_l2[call.l2_hit].physical_page_number * PageSize
                          + (call.va % PageSize)
    /\ call.path = "miss" =>
         /\ call.walk \in PhysicalAddresses
         /\ call.result = call.walk

(* A hit at a nonzero page offset on a page cached in frame 2. *)
C7_Witness ==
  /\ call.op = "translate"
  /\ call.path \in {"l1_hit", "l2_hit"}
  /\ call.va % PageSize # 0
  /\ call.result \div PageSize = 2

(* C8: a WRITE translate that hits leaves the entry that hit dirty, and    *)
(* the dirty flag of a valid entry goes from true to false only when the   *)
(* slot is invalidated or overwritten by a replacement.                    *)
C8_DirtySticky ==
  /\ (call.op = "translate" /\ call.rw = OP_WRITE /\ call.path = "l1_hit") =>
       tlb_l1[call.l1_hit].valid /\ tlb_l1[call.l1_hit].dirty
  /\ (call.op = "translate" /\ call.rw = OP_WRITE /\ call.path = "l2_hit") =>
       tlb_l2[call.l2_hit].valid /\ tlb_l2[call.l2_hit].dirty
  /\ \A i \in L1Slots :
       (pre.tlb_l1[i].valid /\ pre.tlb_l1[i].dirty
          /\ tlb_l1[i].valid /\ ~tlb_l1[i].dirty) =>
         (call.op = "translate" /\ call.l1_pos = i)
  /\ \A i \in L2Slots :
       (pre.tlb_l2[i].valid /\ pre.tlb_l2[i].dirty
          /\ tlb_l2[i].valid /\ ~tlb_l2[i].dirty) =>
         (call.op = "translate" /\ call.l2_pos = i)

(* A READ that hits an entry a WRITE hit made dirty. *)
C8_Witness ==
  /\ call.op = "translate"
  /\ call.rw = OP_READ
  /\ call.path = "l1_hit"
  /\ pre.call.op = "translate"
  /\ pre.call.rw = OP_WRITE
  /\ pre.call.path \in {"l1_hit", "l2_hit"}
  /\ pre.call.vpn = call.vpn
  /\ tlb_l1[call.l1_hit].dirty

(* C9: after a translate that misses both levels, the page is held by      *)
(* exactly one valid L1 slot and exactly one valid L2 slot, both with the  *)
(* walker's page (answer >> page_bits) and dirty = (op == WRITE).          *)
C9_MissFill ==
  (call.op = "translate" /\ call.path = "miss") =>
    /\ Cardinality(Holders(tlb_l1, L1Slots, call.vpn)) = 1
    /\ Cardinality(Holders(tlb_l2, L2Slots, call.vpn)) = 1
    /\ \A i \in Holders(tlb_l1, L1Slots, call.vpn) :
         /\ tlb_l1[i].physical_page_number = call.walk \div PageSize
         /\ tlb_l1[i].dirty = (call.rw = OP_WRITE)
    /\ \A i \in Holders(tlb_l2, L2Slots, call.vpn) :
         /\ tlb_l2[i].physical_page_number = call.walk \div PageSize
         /\ tlb_l2[i].dirty = (call.rw = OP_WRITE)

(* A WRITE miss that replaced a valid L1 entry. *)
C9_Witness ==
  /\ call.op = "translate"
  /\ call.path = "miss"
  /\ call.rw = OP_WRITE
  /\ pre.tlb_l1[call.l1_pos].valid

(* Slot r is the lowest invalid slot of the level or, when every slot is   *)
(* valid, the lowest slot among those of minimal last_access.              *)
IsVictim(tlb, slots, r) ==
  /\ r \in slots
  /\ IF \E i \in slots : ~tlb[i].valid
     THEN /\ ~tlb[r].valid
          /\ \A i \in slots : i < r => tlb[i].valid
     ELSE /\ \A i \in slots : tlb[r].last_access <= tlb[i].last_access
          /\ \A i \in slots : i < r => tlb[i].last_access > tlb[r].last_access

(* C10: for every content of a level, victim selection returns the lowest  *)
(* invalid slot if there is one, and otherwise the slot of minimal         *)
(* last_access, the lowest one among ties.                                 *)
C10_VictimSelection ==
  call.op = "find_lru_victim" =>
    /\ IsVictim(tlb_l1, L1Slots, call.l1_pos)
    /\ IsVictim(tlb_l2, L2Slots, call.l2_pos)

(* Every L2 slot valid, with a tie for the minimal last_access. *)
C10_Witness ==
  /\ call.op = "find_lru_victim"
  /\ \A i \in L2Slots : tlb_l2[i].valid
  /\ \E i \in L2Slots :
       /\ i # call.l2_pos
       /\ tlb_l2[i].last_access = tlb_l2[call.l2_pos].last_access

(* 1 if the condition holds, 0 otherwise. *)
One(b) == IF b THEN 1 ELSE 0

(* C11: every translate adds 1 to exactly one of L1 hits and L1 misses,    *)
(* and 1 to exactly one of L2 hits and L2 misses if and only if it missed  *)
(* L1; every invalidate adds 1 to the invalidation counter of a level if   *)
(* and only if the level held a valid entry of the page; no other counter  *)
(* moves, so L2 hits + L2 misses = L1 misses.                              *)
C11_Counters ==
  LET inL1 == Holders(pre.tlb_l1, L1Slots, call.vpn) # {}
      inL2 == Holders(pre.tlb_l2, L2Slots, call.vpn) # {}
  IN  /\ tlb_l2_hits + tlb_l2_misses = tlb_l1_misses
      /\ call.op = "translate" =>
           /\ tlb_l1_hits = pre.tlb_l1_hits + One(inL1)
           /\ tlb_l1_misses = pre.tlb_l1_misses + One(~inL1)
           /\ tlb_l2_hits = pre.tlb_l2_hits + One(~inL1 /\ inL2)
           /\ tlb_l2_misses = pre.tlb_l2_misses + One(~inL1 /\ ~inL2)
           /\ tlb_l1_hits + tlb_l1_misses
                = pre.tlb_l1_hits + pre.tlb_l1_misses + 1
           /\ tlb_l1_invalidations = pre.tlb_l1_invalidations
           /\ tlb_l2_invalidations = pre.tlb_l2_invalidations
      /\ call.op = "invalidate" =>
           /\ tlb_l1_invalidations = pre.tlb_l1_invalidations + One(inL1)
           /\ tlb_l2_invalidations = pre.tlb_l2_invalidations + One(inL2)
           /\ tlb_l1_hits = pre.tlb_l1_hits
           /\ tlb_l1_misses = pre.tlb_l1_misses
           /\ tlb_l2_hits = pre.tlb_l2_hits
           /\ tlb_l2_misses = pre.tlb_l2_misses

(* An L2 hit after three full misses. *)
C11_Witness ==
  /\ call.op = "translate"
  /\ call.path = "l2_hit"
  /\ tlb_l2_hits = 1
  /\ tlb_l2_misses = 3
  /\ tlb_l1_misses = 4

(* C12: init returns the hierarchy to its start state: every slot invalid, *)
(* the six statistics 0 and the access counter reset.                      *)
C12_InitResets ==
  call.op = "init" =>
    /\ \A i \in L1Slots : ~tlb_l1[i].valid
    /\ \A i \in L2Slots : ~tlb_l2[i].valid
    /\ tlb_l1_hits = 0 /\ tlb_l1_misses = 0 /\ tlb_l1_invalidations = 0
    /\ tlb_l2_hits = 0 /\ tlb_l2_misses = 0 /\ tlb_l2_invalidations = 0
    /\ access_counter = 0

(* C13: after a miss-fill the new L1 entry and the new L2 entry carry the  *)
(* same last_access, and the access counter has advanced by exactly one.   *)
C13_OneStampPerFill ==
  (call.op = "translate" /\ call.path = "miss") =>
    /\ tlb_l1[call.l1_pos].last_access = tlb_l2[call.l2_pos].last_access
    /\ access_counter = pre.access_counter + 1

(* C14: when the valid and dirty L1 victim of a promotion is copied into   *)
(* L2, the L2 slot that receives it is never the slot that hit, and the    *)
(* promoted entry is still there after the call.                           *)
C14_DemotionSparesHit ==
  (call.op = "translate" /\ call.path = "l2_hit" /\ call.l2_pos # NoSlot) =>
    /\ call.l2_pos # call.l2_hit
    /\ Occurs(Event("l2_write", call.l2_pos))
    /\ tlb_l2[call.l2_pos] = pre.tlb_l1[call.l1_pos]
    /\ tlb_l2[call.l2_hit].valid
    /\ tlb_l2[call.l2_hit].virtual_page_number = call.vpn
    /\ tlb_l2[call.l2_hit].physical_page_number
         = pre.tlb_l2[call.l2_hit].physical_page_number

(* A demotion into an L2 whose slots were all valid: the receiving slot    *)
(* comes from the LRU scan, not from a free slot.                          *)
C14_Witness ==
  /\ call.op = "translate"
  /\ call.path = "l2_hit"
  /\ call.l2_pos # NoSlot
  /\ \A i \in L2Slots : pre.tlb_l2[i].valid

(* The positions of the call's event list that are calls of write_back.    *)
WriteBacks ==
  {k \in 1 .. Len(call.events) : call.events[k].ev = "write_back_tlb_entry"}

(* C15: a translate calls write_back at most once and only on a full miss, *)
(* exactly when the L2 victim is valid and dirty, with the victim's        *)
(* physical_page_number << page_bits, after the walker and before the slot *)
(* is overwritten; an L1 hit, an L2 hit and the L1 victim of a miss-fill   *)
(* cause no write_back.                                                    *)
C15_TranslateWriteBack ==
  call.op = "translate" =>
    /\ Cardinality(WriteBacks) <= 1
    /\ call.path # "miss" => WriteBacks = {}
    /\ call.path = "miss" =>
         LET old == pre.tlb_l2[call.l2_pos]
             wb == Event("write_back_tlb_entry",
                         old.physical_page_number * PageSize)
         IN  /\ IsVictim(pre.tlb_l2, L2Slots, call.l2_pos)
             /\ (WriteBacks # {}) = (old.valid /\ old.dirty)
             /\ WriteBacks # {} =>
                  /\ Occurs(wb)
                  /\ OccursBefore(Event("page_table_translate", call.va), wb)
                  /\ OccursBefore(wb, Event("l2_write", call.l2_pos))
                  /\ tlb_l2[call.l2_pos].virtual_page_number = call.vpn

(* A full miss whose L2 victim is valid and dirty while its L1 victim is   *)
(* valid and dirty too: one write_back, the L2 victim's.                   *)
C15_Witness ==
  /\ call.op = "translate"
  /\ call.path = "miss"
  /\ pre.tlb_l2[call.l2_pos].valid
  /\ pre.tlb_l2[call.l2_pos].dirty
  /\ pre.tlb_l1[call.l1_pos].valid
  /\ pre.tlb_l1[call.l1_pos].dirty
  /\ Cardinality(WriteBacks) = 1

(* The lowest slot of a non-empty set of slots. *)
Lowest(S) == CHOOSE i \in S : \A j \in S : i <= j

Walks ==
  {k \in 1 .. Len(call.events) : call.events[k].ev = "page_table_translate"}

(* C17: a translate that hits in L1 changes only the hit entry's           *)
(* last_access (and its dirty flag on WRITE), the L1-hit counter and the   *)
(* access counter: L2, the other L1 slots and the other counters are       *)
(* unchanged, and neither the walker nor write_back is called. The walker  *)
(* is called exactly once by a translate that misses both levels, and not  *)
(* at all by any other.                                                    *)
C17_L1HitFrame ==
  call.op = "translate" =>
    LET h1 == Holders(pre.tlb_l1, L1Slots, call.vpn)
        h2 == Holders(pre.tlb_l2, L2Slots, call.vpn)
    IN  /\ Cardinality(Walks) = One(h1 = {} /\ h2 = {})
        /\ \A k \in Walks :
             call.events[k] = Event("page_table_translate", call.va)
        /\ (call.path = "l1_hit") = (h1 # {})
        /\ h1 # {} =>
             LET i == Lowest(h1)
                 old == pre.tlb_l1[i]
             IN  /\ call.l1_hit = i
                 /\ tlb_l1[i] =
                      [old EXCEPT !.last_access = pre.access_counter + 1,
                                  !.dirty = IF call.rw = OP_WRITE
                                            THEN TRUE ELSE @]
                 /\ \A j \in L1Slots \ {i} : tlb_l1[j] = pre.tlb_l1[j]
                 /\ tlb_l2 = pre.tlb_l2
                 /\ tlb_l1_hits = pre.tlb_l1_hits + 1
                 /\ access_counter = pre.access_counter + 1
                 /\ tlb_l1_misses = pre.tlb_l1_misses
                 /\ tlb_l2_hits = pre.tlb_l2_hits
                 /\ tlb_l2_misses = pre.tlb_l2_misses
                 /\ tlb_l1_invalidations = pre.tlb_l1_invalidations
                 /\ tlb_l2_invalidations = pre.tlb_l2_invalidations
                 /\ call.events = <<>>

(* A WRITE that hits in L1 a clean entry whose L2 copy is clean: the L2    *)
(* copy stays clean and keeps its last_access.                             *)
C17_Witness ==
  /\ call.op = "translate"
  /\ call.path = "l1_hit"
  /\ call.rw = OP_WRITE
  /\ ~pre.tlb_l1[call.l1_hit].dirty
  /\ tlb_l1[call.l1_hit].dirty
  /\ \E j \in Holders(tlb_l2, L2Slots, call.vpn) : ~tlb_l2[j].dirty

(* Entry new is entry old, or old with its valid flag cleared when old was *)
(* a valid entry of page vpn.                                              *)
SameOrFlipped(old, new, vpn) ==
  \/ new = old
  \/ /\ old.valid
     /\ old.virtual_page_number = vpn
     /\ new = [old EXCEPT !.valid = FALSE]

(* C18: invalidate(vpn) of a page held by no valid slot changes no slot    *)
(* and no counter and calls no write_back. Every invalidate leaves the     *)
(* slots of other pages, the four hit and miss counters and the access     *)
(* counter unchanged, and in a matched slot it only clears valid.          *)
C18_InvalidateFrame ==
  call.op = "invalidate" =>
    /\ \A i \in L1Slots : SameOrFlipped(pre.tlb_l1[i], tlb_l1[i], call.vpn)
    /\ \A i \in L2Slots : SameOrFlipped(pre.tlb_l2[i], tlb_l2[i], call.vpn)
    /\ tlb_l1_hits = pre.tlb_l1_hits
    /\ tlb_l1_misses = pre.tlb_l1_misses
    /\ tlb_l2_hits = pre.tlb_l2_hits
    /\ tlb_l2_misses = pre.tlb_l2_misses
    /\ access_counter = pre.access_counter
    /\ (Holders(pre.tlb_l1, L1Slots, call.vpn) = {}
          /\ Holders(pre.tlb_l2, L2Slots, call.vpn) = {}) =>
         /\ tlb_l1 = pre.tlb_l1
         /\ tlb_l2 = pre.tlb_l2
         /\ tlb_l1_invalidations = pre.tlb_l1_invalidations
         /\ tlb_l2_invalidations = pre.tlb_l2_invalidations
         /\ call.events = <<>>

(* An invalidate that matched a dirty entry in L1 and in L2 while both     *)
(* levels hold another page: the matched entries keep every field but      *)
(* valid.                                                                  *)
C18_Witness ==
  /\ call.op = "invalidate"
  /\ call.l1_hit # NoSlot
  /\ call.l2_hit # NoSlot
  /\ tlb_l1[call.l1_hit].dirty
  /\ tlb_l2[call.l2_hit].dirty
  /\ ~tlb_l1[call.l1_hit].valid
  /\ ~tlb_l2[call.l2_hit].valid
  /\ \E i \in L1Slots : tlb_l1[i].valid
  /\ \E i \in L2Slots : tlb_l2[i].valid

(* C19: a translate advances the simulated clock by the L1 latency when it *)
(* hits in L1, and by the L1 latency plus the L2 latency when it misses in *)
(* L1, whether L2 hits or misses.                                          *)
C19_TranslateLatency ==
  call.op = "translate" =>
    current_time - pre.current_time =
      IF Holders(pre.tlb_l1, L1Slots, call.vpn) # {}
      THEN TLB_L1_LATENCY_NS
      ELSE TLB_L1_LATENCY_NS + TLB_L2_LATENCY_NS

(* An L2 hit that follows a full miss: the two calls were charged the same. *)
C19_Witness ==
  /\ call.op = "translate"
  /\ call.path = "l2_hit"
  /\ pre.call.op = "translate"
  /\ pre.call.path = "miss"
  /\ current_time - pre.current_time = TLB_L1_LATENCY_NS + TLB_L2_LATENCY_NS
  /\ current_time >= 2 * (TLB_L1_LATENCY_NS + TLB_L2_LATENCY_NS)

(* C20: every invalidate advances the simulated clock by the L1 latency    *)
(* plus the L2 latency, whether or not the page is found in either level.  *)
C20_InvalidateLatency ==
  call.op = "invalidate" =>
    current_time - pre.current_time = TLB_L1_LATENCY_NS + TLB_L2_LATENCY_NS

====
